---- MODULE Spec2Model ----
(***************************************************************************)
(* Keyword sanitizer and metadata post-processing of the stock image       *)
(* metadata generator.                                                     *)
(*                                                                         *)
(* A JavaScript string is a sequence of one-character strings, so that     *)
(* trim() and toLowerCase() are computed and not assumed.  A decoded JSON  *)
(* value is a record [t, a]: t is its type tag and a its elements (the     *)
(* entries of an array, the characters of a string, <<>> otherwise).  An   *)
(* array entry is a record [t, s]: s holds the characters of a string      *)
(* entry and is <<>> for a null or a numeric entry.                        *)
(***************************************************************************)
EXTENDS Integers, Sequences, FiniteSets, TLC

\* ------------------------------------------------------------------------
\* Bounds of the model
\* ------------------------------------------------------------------------
MaxLen == 3        \* longest array built from Vocab
MaxAffix == 1      \* longest prefix/suffix put around a run of fillers
MaxFill == 26      \* longest run of distinct, group-free filler keywords
MaxCalls == 3      \* most calls of validateAndCleanKeywords in a row
MaxCallLen == 2    \* longest argument of these calls
MaxSelect == 2     \* most files of one selection while batches are run
MaxImages == 3     \* most files read while batches are run
MaxRuns == 2       \* most clicks of Generate
MaxUploaded == 53  \* most files read while selections are made
MaxRemoved == 1    \* most images removed one by one meanwhile

\* ------------------------------------------------------------------------
\* Program constants
\* ------------------------------------------------------------------------
\* a limit that lets one keyword too many through
MaxKeywordsOffByOne == 25 + 1

MaxKeywords == 25

MinKeywordLength == 2

TopTenLength == 10

MaxBatchSizeOffByOne == 50 + 1

MaxBatchSize == 50

\* ------------------------------------------------------------------------
\* String.prototype.trim and String.prototype.toLowerCase
\* ------------------------------------------------------------------------
WhiteSpace == {" ", "\t"}

UpperCase == <<"A","B","C","D","E","F","G","H","I","J","K","L","M",
               "N","O","P","Q","R","S","T","U","V","W","X","Y","Z">>

LowerCase == <<"a","b","c","d","e","f","g","h","i","j","k","l","m",
               "n","o","p","q","r","s","t","u","v","w","x","y","z">>

ToLowerChar(c) ==
  IF \E i \in 1..Len(UpperCase) : UpperCase[i] = c
  THEN LowerCase[CHOOSE i \in 1..Len(UpperCase) : UpperCase[i] = c]
  ELSE c

ToLowerCase(s) == [i \in 1..Len(s) |-> ToLowerChar(s[i])]

RECURSIVE TrimStart(_)
TrimStart(s) ==
  IF s # <<>> /\ Head(s) \in WhiteSpace THEN TrimStart(Tail(s)) ELSE s

RECURSIVE TrimEnd(_)
TrimEnd(s) ==
  IF s # <<>> /\ s[Len(s)] \in WhiteSpace
  THEN TrimEnd(SubSeq(s, 1, Len(s) - 1)) ELSE s

Trim(s) == TrimEnd(TrimStart(s))

\* ------------------------------------------------------------------------
\* validateAndCleanKeywords
\* ------------------------------------------------------------------------
\* The static table, in insertion order (the order Object.entries yields).
variations ==
  <<
     [stem |-> <<"w","o","r","k">>,
      variants |-> << <<"w","o","r","k">>,
                     <<"w","o","r","k","i","n","g">>,
                     <<"w","o","r","k","e","r">>,
                     <<"w","o","r","k","p","l","a","c","e">>,
                     <<"w","o","r","k","s","t","a","t","i","o","n">> >>],
     [stem |-> <<"b","u","s","i","n","e","s","s">>,
      variants |-> << <<"b","u","s","i","n","e","s","s">>,
                     <<"c","o","r","p","o","r","a","t","e">>,
                     <<"p","r","o","f","e","s","s","i","o","n","a","l">>,
                     <<"c","o","m","m","e","r","c","i","a","l">>,
                     <<"e","n","t","e","r","p","r","i","s","e">> >>],
     [stem |-> <<"h","a","p","p","y">>,
      variants |-> << <<"h","a","p","p","y">>,
                     <<"j","o","y","f","u","l">>,
                     <<"c","h","e","e","r","f","u","l">>,
                     <<"d","e","l","i","g","h","t","e","d">>,
                     <<"p","l","e","a","s","e","d">> >>],
     [stem |-> <<"s","u","c","c","e","s","s">>,
      variants |-> << <<"s","u","c","c","e","s","s">>,
                     <<"s","u","c","c","e","s","s","f","u","l">>,
                     <<"a","c","h","i","e","v","e","m","e","n","t">>,
                     <<"a","c","c","o","m","p","l","i","s","h","m","e","n","t">> >>],
     [stem |-> <<"t","e","a","m">>,
      variants |-> << <<"t","e","a","m">>,
                     <<"t","e","a","m","w","o","r","k">>,
                     <<"c","o","l","l","a","b","o","r","a","t","i","o","n">>,
                     <<"c","o","o","p","e","r","a","t","i","v","e">> >>],
     [stem |-> <<"t","e","c","h","n","o","l","o","g","y">>,
      variants |-> << <<"t","e","c","h","n","o","l","o","g","y">>,
                     <<"t","e","c","h","n","o","l","o","g","i","c","a","l">>,
                     <<"t","e","c","h">>,
                     <<"d","i","g","i","t","a","l">> >>],
     [stem |-> <<"p","e","o","p","l","e">>,
      variants |-> << <<"p","e","o","p","l","e">>,
                     <<"p","e","r","s","o","n">>,
                     <<"i","n","d","i","v","i","d","u","a","l","s">>,
                     <<"h","u","m","a","n","s">> >>],
     [stem |-> <<"h","a","n","d">>,
      variants |-> << <<"h","a","n","d">>,
                     <<"h","a","n","d","s">>,
                     <<"f","i","n","g","e","r">>,
                     <<"f","i","n","g","e","r","s">> >>],
     [stem |-> <<"o","f","f","i","c","e">>,
      variants |-> << <<"o","f","f","i","c","e">>,
                     <<"w","o","r","k","s","p","a","c","e">>,
                     <<"w","o","r","k","p","l","a","c","e">> >>],
     [stem |-> <<"m","e","e","t","i","n","g">>,
      variants |-> << <<"m","e","e","t","i","n","g">>,
                     <<"c","o","n","f","e","r","e","n","c","e">>,
                     <<"d","i","s","c","u","s","s","i","o","n">> >>],
     [stem |-> <<"c","o","m","p","u","t","e","r">>,
      variants |-> << <<"c","o","m","p","u","t","e","r">>,
                     <<"l","a","p","t","o","p">>,
                     <<"d","e","s","k","t","o","p">>,
                     <<"p","c">> >>],
     [stem |-> <<"f","i","n","a","n","c","e">>,
      variants |-> << <<"f","i","n","a","n","c","e">>,
                     <<"f","i","n","a","n","c","i","a","l">>,
                     <<"m","o","n","e","y">>,
                     <<"e","c","o","n","o","m","i","c">> >>],
     [stem |-> <<"d","a","t","a">>,
      variants |-> << <<"d","a","t","a">>,
                     <<"i","n","f","o","r","m","a","t","i","o","n">>,
                     <<"a","n","a","l","y","t","i","c","s">>,
                     <<"s","t","a","t","i","s","t","i","c","s">> >>],
     [stem |-> <<"g","r","o","w","t","h">>,
      variants |-> << <<"g","r","o","w","t","h">>,
                     <<"g","r","o","w","i","n","g">>,
                     <<"d","e","v","e","l","o","p","m","e","n","t">>,
                     <<"p","r","o","g","r","e","s","s">> >>],
     [stem |-> <<"m","o","d","e","r","n">>,
      variants |-> << <<"m","o","d","e","r","n">>,
                     <<"c","o","n","t","e","m","p","o","r","a","r","y">>,
                     <<"c","u","r","r","e","n","t">>,
                     <<"n","e","w">> >>]
  >>

\* Array.prototype.includes over a sequence
Includes(seq, x) == \E i \in 1..Len(seq) : seq[i] = x

\* Array.prototype.slice(0, n)
Slice(seq, n) == SubSeq(seq, 1, IF Len(seq) < n THEN Len(seq) ELSE n)

\* `!keywords || !Array.isArray(keywords)` with a guard that only tests
\* falsiness
IsNotArrayFalsyOnly(keywords) ==
  \/ keywords.t \in {"null", "undef"}
  \/ keywords.t = "str" /\ keywords.a = <<>>

\* `!keywords || !Array.isArray(keywords)`
IsNotArray(keywords) == keywords.t # "arr"

\* k.trim().toLowerCase() is applicable to string entries only: for a null
\* or a numeric entry `k.trim` is a TypeError.
CanNormalize(k) == k.t = "str"

Normalize(k) == ToLowerCase(Trim(k.s))

\* keywords.map(k => k.trim().toLowerCase())
Processed(items) == [i \in 1..Len(items) |-> Normalize(items[i])]

IsTooShortOffByOne(keyword) == Len(keyword) < 1

\* `!keyword || keyword.length < 2`
IsTooShort(keyword) == keyword = <<>> \/ Len(keyword) < MinKeywordLength

\* The inner loop over Object.entries(variations): the index of the first
\* group whose variants include the keyword, 0 when there is none.
MatchingGroups(keyword) ==
  {g \in 1..Len(variations) : Includes(variations[g].variants, keyword)}

\* a lookup without the `break`: the last group listing the keyword wins
LastGroup(keyword) ==
  IF MatchingGroups(keyword) = {} THEN 0
  ELSE CHOOSE g \in MatchingGroups(keyword) :
         \A h \in MatchingGroups(keyword) : g >= h

FirstGroup(keyword) ==
  IF MatchingGroups(keyword) = {} THEN 0
  ELSE CHOOSE g \in MatchingGroups(keyword) :
         \A h \in MatchingGroups(keyword) : g <= h

\* State of the outer loop: the two sets, the output array and whether the
\* loop was left by the break at 25 keywords.
LoopStart == [unique |-> {}, stems |-> {}, cleanedKeywords |-> <<>>,
              stopped |-> FALSE]

\* cleanedKeywords.unshift in place of cleanedKeywords.push
AcceptUnshift(st, keyword, stems) ==
  [unique |-> st.unique \cup {keyword},
   stems |-> stems,
   cleanedKeywords |-> <<keyword>> \o st.cleanedKeywords,
   stopped |-> Len(st.cleanedKeywords) + 1 >= MaxKeywords]

\* the break taken one keyword early (`>= 24`)
AcceptStopsEarly(st, keyword, stems) ==
  [unique |-> st.unique \cup {keyword},
   stems |-> stems,
   cleanedKeywords |-> Append(st.cleanedKeywords, keyword),
   stopped |-> Len(st.cleanedKeywords) + 1 >= MaxKeywords - 1]

\* cleanedKeywords.push and the break that follows it
Accept(st, keyword, stems) ==
  [unique |-> st.unique \cup {keyword},
   stems |-> stems,
   cleanedKeywords |-> Append(st.cleanedKeywords, keyword),
   stopped |-> Len(st.cleanedKeywords) + 1 >= MaxKeywords]

\* One iteration of `for (const keyword of processed)` without the test of
\* the set `unique`
LoopBodyNoUnique(st, keyword) ==
  LET g == FirstGroup(keyword) IN
  IF IsTooShort(keyword) THEN st
  ELSE IF g # 0 /\ variations[g].stem \in st.stems THEN st
  ELSE IF g # 0 THEN Accept(st, keyword, st.stems \cup {variations[g].stem})
  ELSE Accept(st, keyword, st.stems)

\* One iteration that never records the stem it finds
LoopBodyNoClaim(st, keyword) ==
  LET g == FirstGroup(keyword) IN
  IF IsTooShort(keyword) THEN st
  ELSE IF keyword \in st.unique THEN st
  ELSE IF g # 0 /\ variations[g].stem \in st.stems THEN st
  ELSE Accept(st, keyword, st.stems)

\* One iteration of `for (const keyword of processed)`
LoopBody(st, keyword) ==
  LET g == FirstGroup(keyword) IN
  IF IsTooShort(keyword) THEN st
  ELSE IF keyword \in st.unique THEN st
  ELSE IF g # 0 /\ variations[g].stem \in st.stems THEN st
  ELSE IF g # 0 THEN Accept(st, keyword, st.stems \cup {variations[g].stem})
  ELSE Accept(st, keyword, st.stems)

\* The loop state after the first n elements of processed were reached, the
\* sets and the output array being `start` when the loop is entered
RECURSIVE RunLoopFrom(_, _, _)
RunLoopFrom(start, processed, n) ==
  IF n = 0 THEN start
  ELSE LET st == RunLoopFrom(start, processed, n - 1) IN
       IF st.stopped THEN st ELSE LoopBody(st, processed[n])

\* The loop state after the first n elements of processed were reached
RunLoop(processed, n) == RunLoopFrom(LoopStart, processed, n)

\* the call runs the loop on the sets and the array it entered with
CallReturns(start, keywords) ==
  IF IsNotArray(keywords) THEN [k |-> "return", v |-> <<>>]
  ELSE IF keywords.t # "arr" THEN [k |-> "throw", v |-> <<>>]
  ELSE IF \E i \in 1..Len(keywords.a) : ~CanNormalize(keywords.a[i])
  THEN [k |-> "throw", v |-> <<>>]
  ELSE [k |-> "return",
        v |-> Slice(RunLoopFrom(start, Processed(keywords.a),
                                Len(keywords.a)).cleanedKeywords,
                    MaxKeywords)]

\* Outcome of a call: k = "return" with the returned array v, or k = "throw"
\* (`keywords.map` of a value that is no array, `k.trim` of an entry that is
\* no string: both are TypeErrors).
validateAndCleanKeywords(keywords) == CallReturns(LoopStart, keywords)

\* `unique`, `stems` and `cleanedKeywords` hoisted out of the function: a call
\* goes on with what the call before left in them
SetsOfCallBefore(left) ==
  [unique |-> left.unique, stems |-> left.stems,
   cleanedKeywords |-> left.cleanedKeywords, stopped |-> FALSE]

\* `unique`, `stems` and `cleanedKeywords` are created inside the function:
\* every call enters the loop with new, empty ones, whatever the call before
\* left in its own
SetsOfCall(left) == LoopStart

\* what the sets and the array of a call hold when it ends
SetsLeft(start, keywords) ==
  IF CallReturns(start, keywords).k = "return" /\ ~IsNotArray(keywords)
  THEN RunLoopFrom(start, Processed(keywords.a), Len(keywords.a))
  ELSE start

\* The argument after the call: `keywords.map` builds the array `processed`
\* and the loop reads that one only; the argument is never written.
ArgumentAfter(keywords) == keywords

\* ------------------------------------------------------------------------
\* generateSingleMetadata: post-processing of the parsed response
\* ------------------------------------------------------------------------
Str(s) == [t |-> "str", s |-> s]

NullEntry == [t |-> "null", s |-> <<>>]

NumEntry == [t |-> "num", s |-> <<>>]

Undefined == [t |-> "undef", a |-> <<>>]

Null == [t |-> "null", a |-> <<>>]

Array(items) == [t |-> "arr", a |-> items]

\* the array of strings a call of validateAndCleanKeywords returns
StringArray(strs) == Array([i \in 1..Len(strs) |-> Str(strs[i])])

\* `!value`
IsFalsy(value) ==
  \/ value.t \in {"undef", "null"}
  \/ value.t = "str" /\ value.a = <<>>

\* `value.length !== 10`: arrays and strings have a length, the other values
\* have none (undefined !== 10)
LengthIsNot(value, n) ==
  IF value.t \in {"arr", "str"} THEN Len(value.a) # n ELSE TRUE

\* `!result.topTenKeywords || result.topTenKeywords.length !== 10`
NeedsFallback(topTen) == IsFalsy(topTen) \/ LengthIsNot(topTen, TopTenLength)

\* `result.keywords.slice(0, 10)`: defined for arrays and strings, a
\* TypeError for the other values
CanSlice(value) == value.t \in {"arr", "str"}

SliceValue(value, n) == [t |-> value.t, a |-> Slice(value.a, n)]

\* a fresh object built from keywords and topTenKeywords only
OtherFieldsDropped(other) ==
  [title |-> "", description |-> "", altText |-> "", category |-> ""]

\* The parsed object itself is updated and resolved: the fields that are not
\* assigned (title, description, altText, category) keep their values.
OtherFields(other) == other

\* part_000, lines 226-236: outcome of the post-processing of the parsed object
PostProcess(keywords, topTen) ==
  LET cleaned == validateAndCleanKeywords(keywords) IN
  IF cleaned.k = "throw"
  THEN [k |-> "reject", keywords |-> keywords, topTenKeywords |-> topTen]
  ELSE [k |-> "resolve",
        keywords |-> StringArray(cleaned.v),
        topTenKeywords |-> IF NeedsFallback(topTen)
                           THEN SliceValue(StringArray(cleaned.v), TopTenLength)
                           ELSE topTen]

\* components/MetadataGenerator.tsx, lines 148-155: the same step of the
\* component that does not sanitize
PostProcessUnsanitized(keywords, topTen) ==
  IF NeedsFallback(topTen) /\ ~CanSlice(keywords)
  THEN [k |-> "reject", keywords |-> keywords, topTenKeywords |-> topTen]
  ELSE [k |-> "resolve",
        keywords |-> keywords,
        topTenKeywords |-> IF NeedsFallback(topTen)
                           THEN SliceValue(keywords, TopTenLength)
                           ELSE topTen]

\* ------------------------------------------------------------------------
\* Inputs
\* ------------------------------------------------------------------------
SeqUpTo(S, n) == UNION {[1..m -> S] : m \in 0..n}

FillLetters == <<"q", "u", "x", "y", "z", "j">>

\* the i-th filler keyword: two letters, member of no stem group
Filler(i) ==
  <<FillLetters[((i - 1) \div Len(FillLetters)) + 1],
    FillLetters[((i - 1) % Len(FillLetters)) + 1]>>

Fill(n) == [i \in 1..n |-> Str(Filler(i))]

Vocab ==
  {Str(<<"B","u","s","i","n","e","s","s">>),
   Str(<<"N","a","t","u","r","e">>),
   Str(<<"b","u","s","i","n","e","s","s">>),
   Str(<<"w","o","r","k">>),
   Str(<<"w","o","r","k","i","n","g">>),
   Str(<<"o","f","f","i","c","e">>),
   Str(<<"w","o","r","k","p","l","a","c","e">>),
   Str(<<"a">>),
   Str(<<"o","k">>),
   Str(<<"g","o">>),
   Str(<<" ","W","o","r","k"," ">>),
   Str(<<" "," ">>),
   Str(<<>>),
   NullEntry, NumEntry}

AffixVocab ==
  {Str(<<"w","o","r","k">>),
   Str(<<"w","o","r","k","i","n","g">>),
   Str(<<" ","W","o","r","k"," ">>),
   Str(<<"a">>),
   NullEntry}

SmallArrays == {Array(items) : items \in SeqUpTo(Vocab, MaxLen)}

LongArrays ==
  {Array(h \o Fill(n) \o t) :
     h \in SeqUpTo(AffixVocab, MaxAffix), n \in 0..MaxFill,
     t \in SeqUpTo(AffixVocab, MaxAffix)}

NonArrays ==
  {Undefined, Null, [t |-> "str", a |-> <<>>],
   [t |-> "str", a |-> <<"o", "k">>], [t |-> "num", a |-> <<>>],
   [t |-> "obj", a |-> <<>>]}

KeywordsArguments == SmallArrays \cup LongArrays \cup NonArrays

ResponseKeywords ==
  {Array(h \o Fill(n)) :
     h \in SeqUpTo(AffixVocab, MaxAffix), n \in 0..(TopTenLength + 1)}
  \cup NonArrays

ResponseTopTen ==
  {Undefined, Null, [t |-> "num", a |-> <<>>],
   [t |-> "str", a |-> <<"t","o","p","k","e","y","w","o","r","d">>]}
  \cup {Array([i \in 1..n |-> Str(Filler(n + 1 - i))]) :
          n \in {0, TopTenLength - 1, TopTenLength, TopTenLength + 1}}

\* title/description/altText/category of the parsed response
ResponseOther ==
  {[title |-> "t1", description |-> "d1", altText |-> "a1", category |-> "Business"],
   [title |-> "t2", description |-> "d2", altText |-> "a2", category |-> "Nature"]}

NoOther == [title |-> "", description |-> "", altText |-> "", category |-> ""]

\* ------------------------------------------------------------------------
\* State
\* ------------------------------------------------------------------------
VARIABLES
  pending,      \* the operation about to run, "none" once it ran
  op,           \* the operation that ran
  argKeywords,  \* its `keywords` (the argument, or the parsed field)
  argTopTen,    \* the parsed response's topTenKeywords
  argOther,     \* the parsed response's other fields
  outKind,      \* "return" | "throw" | "resolve" | "reject"
  outKeywords,  \* keywords of the outcome
  outTopTen,    \* topTenKeywords of the outcome
  outOther,     \* other fields of the outcome
  calls,        \* the calls of validateAndCleanKeywords made one after another
  left          \* what the sets and the array of the last call were left as

harnessVars == <<pending, op, argKeywords, argTopTen, argOther,
                 outKind, outKeywords, outTopTen, outOther>>

callVars == <<calls, left>>

VARIABLES
  imageBatch,              \* useState<ImageBatch[]>([])
  apiKey,                  \* useState(localStorage.getItem(...) || '')
  isBatchProcessing,       \* useState(false)
  currentProcessingIndex,  \* useState(-1)
  nextId,                  \* the ids drawn so far are 1..nextId-1
  reads,                   \* reads of uploaded files that have not ended
  runs,                    \* the calls of processBatch: position, closure, log
  inFlight,                \* the requests sent and not yet answered
  notice                   \* title of the notification of the last step

batchVars == <<imageBatch, apiKey, isBatchProcessing, currentProcessingIndex,
               nextId, reads, runs, inFlight, notice>>

vars == <<harnessVars, callVars, batchVars>>

\* the component is not in use
BatchAtRest ==
  /\ imageBatch = <<>>
  /\ apiKey = ""
  /\ isBatchProcessing = FALSE
  /\ currentProcessingIndex = -1
  /\ nextId = 1
  /\ reads = 0
  /\ runs = <<>>
  /\ inFlight = {}
  /\ notice = "none"


\* Either a call of validateAndCleanKeywords on some argument is about to be
\* made, or JSON.parse has just returned the object of some response.
Init ==
  /\ BatchAtRest
  /\ calls = <<>>
  /\ left = LoopStart
  /\ op = "none"
  /\ outKind = "none"
  /\ outKeywords = Undefined
  /\ outTopTen = Undefined
  /\ outOther = NoOther
  /\ \/ /\ pending = "validateAndCleanKeywords"
        /\ argKeywords \in KeywordsArguments
        /\ argTopTen = Undefined
        /\ argOther = NoOther
     \/ /\ pending = "generateSingleMetadata"
        /\ argKeywords \in ResponseKeywords
        /\ argTopTen \in ResponseTopTen
        /\ argOther \in ResponseOther

\* the call validateAndCleanKeywords(argKeywords)
Validate ==
  LET out == validateAndCleanKeywords(argKeywords) IN
  /\ pending = "validateAndCleanKeywords"
  /\ pending' = "none"
  /\ op' = "validateAndCleanKeywords"
  /\ outKind' = out.k
  /\ outKeywords' = StringArray(out.v)
  /\ outTopTen' = Undefined
  /\ outOther' = NoOther
  /\ UNCHANGED <<argKeywords, argTopTen, argOther>>
  /\ UNCHANGED <<callVars, batchVars>>

\* generateSingleMetadata of part_000, from JSON.parse to resolve/reject
GenerateSingleMetadata ==
  LET out == PostProcess(argKeywords, argTopTen) IN
  /\ pending = "generateSingleMetadata"
  /\ pending' = "none"
  /\ op' = "generateSingleMetadata"
  /\ outKind' = out.k
  /\ outKeywords' = out.keywords
  /\ outTopTen' = out.topTenKeywords
  /\ outOther' = OtherFields(argOther)
  /\ UNCHANGED <<argKeywords, argTopTen, argOther>>
  /\ UNCHANGED <<callVars, batchVars>>

\* generateSingleMetadata of components/MetadataGenerator.tsx, from
\* JSON.parse to resolve/reject
GenerateSingleMetadataUnsanitized ==
  LET out == PostProcessUnsanitized(argKeywords, argTopTen) IN
  /\ pending = "generateSingleMetadata"
  /\ pending' = "none"
  /\ op' = "generateSingleMetadataUnsanitized"
  /\ outKind' = out.k
  /\ outKeywords' = out.keywords
  /\ outTopTen' = out.topTenKeywords
  /\ outOther' = OtherFields(argOther)
  /\ UNCHANGED <<argKeywords, argTopTen, argOther>>
  /\ UNCHANGED <<callVars, batchVars>>

Next ==
  \/ Validate
  \/ GenerateSingleMetadata
  \/ GenerateSingleMetadataUnsanitized

Spec == Init /\ [][Next]_vars

\* ------------------------------------------------------------------------
\* Calls of validateAndCleanKeywords one after another
\* ------------------------------------------------------------------------
CallVocab ==
  {Str(<<"w","o","r","k">>),
   Str(<<" ","W","o","r","k","i","n","g"," ">>),
   NullEntry}

CallArguments ==
  {Array(items) : items \in SeqUpTo(CallVocab, MaxCallLen)} \cup {Null}

InitCalls ==
  /\ BatchAtRest
  /\ calls = <<>>
  /\ left = LoopStart
  /\ pending = "none"
  /\ op = "none"
  /\ argKeywords = Undefined
  /\ argTopTen = Undefined
  /\ argOther = NoOther
  /\ outKind = "none"
  /\ outKeywords = Undefined
  /\ outTopTen = Undefined
  /\ outOther = NoOther

\* one more call validateAndCleanKeywords(keywords)
Call ==
  \E keywords \in CallArguments :
    LET start == SetsOfCall(left) IN
    /\ Len(calls) < MaxCalls
    /\ calls' = Append(calls, [arg |-> keywords,
                               after |-> ArgumentAfter(keywords),
                               out |-> CallReturns(start, keywords)])
    /\ left' = SetsLeft(start, keywords)
    /\ UNCHANGED <<harnessVars, batchVars>>

NextCalls == Call

SpecCalls == InitCalls /\ [][NextCalls]_vars

\* ------------------------------------------------------------------------
\* The component MetadataGenerator: uploads and the batch run
\* ------------------------------------------------------------------------
\* An image of the batch is [id, metadata, isProcessing]; its file is known by
\* the id (the id is drawn when the file's read completes).  metadata is
\* NoMetadata or the record resolved for that file by a run.
NoMetadata == [of |-> 0, run |-> 0]

NewImage(id) == [id |-> id, metadata |-> NoMetadata, isProcessing |-> FALSE]

Ids(batch) == {batch[k].id : k \in 1..Len(batch)}

\* prev.filter(img => img.id !== id)
RECURSIVE Without(_, _)
Without(batch, id) ==
  IF batch = <<>> THEN <<>>
  ELSE IF Head(batch).id = id THEN Without(Tail(batch), id)
       ELSE <<Head(batch)>> \o Without(Tail(batch), id)

\* prev.map(img => img.id === id ? {...img, isProcessing: flag} : img)
WithProcessing(batch, id, flag) ==
  [k \in 1..Len(batch) |->
     IF batch[k].id = id THEN [batch[k] EXCEPT !.isProcessing = flag]
     ELSE batch[k]]

\* the result stored on the image at the head of the batch, whatever its id
WithMetadataAtHead(batch, id, metadata) ==
  [k \in 1..Len(batch) |->
     IF k = 1
     THEN [batch[k] EXCEPT !.metadata = metadata, !.isProcessing = FALSE]
     ELSE batch[k]]

\* prev.map(img => img.id === id ? {...img, metadata, isProcessing: false} : img)
WithMetadata(batch, id, metadata) ==
  [k \in 1..Len(batch) |->
     IF batch[k].id = id
     THEN [batch[k] EXCEPT !.metadata = metadata, !.isProcessing = FALSE]
     ELSE batch[k]]

\* a button that is disabled only for an empty batch or a missing key
GenerateEnabledWhileRunning(batch, key, processing) ==
  ~(Len(batch) = 0 \/ key = "")

\* `disabled={imageBatch.length === 0 || !apiKey || isBatchProcessing}`
GenerateEnabled(batch, key, processing) ==
  ~(Len(batch) = 0 \/ key = "" \/ processing)

\* the loop reading the state of the latest render in place of its closure
LoopBatchLive(run, live) == [k \in 1..Len(live) |-> live[k].id]

\* The array the loop of a run iterates over: `imageBatch` of the closure of
\* processBatch, that is the batch of the render in which Generate was
\* clicked, whatever the state has become since.
LoopBatch(run, live) == run.batch

\* the count taken from the state of the latest render
CompletionCountLive(run, live) == Len(live)

\* `Processed ${imageBatch.length} images`, imageBatch being the closure's
CompletionCount(run, live) == Len(run.batch)

\* i is the index of the loop and image the id of `const image = imageBatch[i]`
NewRun(batch) ==
  [pc |-> "reading", i |-> 0, image |-> batch[1].id,
   batch |-> [k \in 1..Len(batch) |-> batch[k].id],
   requests |-> <<>>, errors |-> <<>>, complete |-> <<>>]

HarnessAtRest ==
  /\ pending = "none"
  /\ op = "none"
  /\ argKeywords = Undefined
  /\ argTopTen = Undefined
  /\ argOther = NoOther
  /\ outKind = "none"
  /\ outKeywords = Undefined
  /\ outTopTen = Undefined
  /\ outOther = NoOther
  /\ calls = <<>>
  /\ left = LoopStart

\* the component after its first render: the key is the stored one, or ''
InitBatch ==
  /\ HarnessAtRest
  /\ imageBatch = <<>>
  /\ apiKey \in {"", "key"}
  /\ isBatchProcessing = FALSE
  /\ currentProcessingIndex = -1
  /\ nextId = 1
  /\ reads = 0
  /\ runs = <<>>
  /\ inFlight = {}
  /\ notice = "none"

\* handleBatchImageUpload for a selection of n files, `large` of them over
\* 10MB; at most `cap` files are ever read
Upload(n, large, cap) ==
  /\ large <= n
  /\ IF n = 0
     THEN /\ notice' = "none"
          /\ UNCHANGED reads
     ELSE IF n > MaxBatchSize
     THEN /\ notice' = "Too many files"
          /\ UNCHANGED reads
     ELSE IF Len(imageBatch) + n > MaxBatchSize
     THEN /\ notice' = "Batch limit exceeded"
          /\ UNCHANGED reads
     ELSE /\ (nextId - 1) + reads + (n - large) <= cap
          /\ notice' = IF large > 0 THEN "File too large" ELSE "none"
          /\ reads' = reads + (n - large)
  /\ UNCHANGED <<imageBatch, apiKey, isBatchProcessing,
                 currentProcessingIndex, nextId, runs, inFlight>>
  /\ UNCHANGED <<harnessVars, callVars>>

\* reader.onload of an uploaded file
UploadLoaded ==
  /\ reads > 0
  /\ reads' = reads - 1
  /\ imageBatch' = Append(imageBatch, NewImage(nextId))
  /\ nextId' = nextId + 1
  /\ notice' = "none"
  /\ UNCHANGED <<apiKey, isBatchProcessing, currentProcessingIndex, runs,
                 inFlight>>
  /\ UNCHANGED <<harnessVars, callVars>>

\* the read of an uploaded file ends in an error: no handler is set
UploadReadFails ==
  /\ reads > 0
  /\ reads' = reads - 1
  /\ notice' = "none"
  /\ UNCHANGED <<imageBatch, apiKey, isBatchProcessing,
                 currentProcessingIndex, nextId, runs, inFlight>>
  /\ UNCHANGED <<harnessVars, callVars>>

\* removeImage(id), from the button of an image of the batch; at most `cap`
\* images are ever removed one by one
RemoveImage(id, cap) ==
  /\ id \in Ids(imageBatch)
  /\ (nextId - 1) - Len(imageBatch) < cap
  /\ imageBatch' = Without(imageBatch, id)
  /\ notice' = "none"
  /\ UNCHANGED <<apiKey, isBatchProcessing, currentProcessingIndex, nextId,
                 reads, runs, inFlight>>
  /\ UNCHANGED <<harnessVars, callVars>>

\* clearBatch, from the button shown for a batch that is not empty
ClearBatch ==
  /\ Len(imageBatch) > 0
  /\ imageBatch' = <<>>
  /\ currentProcessingIndex' = -1
  /\ notice' = "none"
  /\ UNCHANGED <<apiKey, isBatchProcessing, nextId, reads, runs, inFlight>>
  /\ UNCHANGED <<harnessVars, callVars>>

\* the key typed into the input
SetApiKey(key) ==
  /\ apiKey # key
  /\ apiKey' = key
  /\ notice' = "none"
  /\ UNCHANGED <<imageBatch, isBatchProcessing, currentProcessingIndex,
                 nextId, reads, runs, inFlight>>
  /\ UNCHANGED <<harnessVars, callVars>>

\* The loop of run r goes on after item run.i, the batch being `batch` after
\* the update for that item: the next item is marked and its file read, or,
\* after the last one, the run ends with its notification.
Continue(r, run, batch, title) ==
  IF run.i + 1 < Len(LoopBatch(run, batch))
  THEN /\ imageBatch' =
            WithProcessing(batch, LoopBatch(run, batch)[run.i + 2], TRUE)
       /\ currentProcessingIndex' = run.i + 1
       /\ runs' = [runs EXCEPT ![r] =
                     [run EXCEPT !.i = run.i + 1, !.pc = "reading",
                        !.image = LoopBatch(run, batch)[run.i + 2]]]
       /\ notice' = title
       /\ UNCHANGED isBatchProcessing
  ELSE /\ imageBatch' = batch
       /\ isBatchProcessing' = FALSE
       /\ currentProcessingIndex' = -1
       /\ runs' = [runs EXCEPT ![r] =
                     [run EXCEPT !.pc = "done",
                        !.complete = Append(@, CompletionCount(run, batch))]]
       /\ notice' = "Batch Processing Complete!"

\* the run given up at the first item that fails: a catch around the loop
ContinueAfterFailureNot(r, run, batch, title) ==
  /\ imageBatch' = batch
  /\ isBatchProcessing' = FALSE
  /\ currentProcessingIndex' = -1
  /\ runs' = [runs EXCEPT ![r] =
                [run EXCEPT !.pc = "done",
                   !.complete = Append(@, CompletionCount(run, batch))]]
  /\ notice' = "Batch Processing Complete!"

\* a catch block that also clears the metadata of the failed image
AfterFailureCleared(batch, id) == WithMetadata(batch, id, NoMetadata)

\* the update of the catch block:
\* prev.map(img => img.id === image.id ? {...img, isProcessing: false} : img)
AfterFailure(batch, id) == WithProcessing(batch, id, FALSE)

\* after the catch block of an item the loop goes on as after any item
ContinueAfterFailure(r, run, batch, title) == Continue(r, run, batch, title)

\* a test that looks at the batch only
MissingRequirementsBatchOnly(batch, key) == Len(batch) = 0

\* `imageBatch.length === 0 || !apiKey`
MissingRequirements(batch, key) == Len(batch) = 0 \/ key = ""

\* processBatch up to its first await
ProcessBatchCall ==
  /\ Len(runs) < MaxRuns
  /\ IF MissingRequirements(imageBatch, apiKey)
     THEN /\ notice' = "Missing Requirements"
          /\ UNCHANGED <<imageBatch, isBatchProcessing,
                         currentProcessingIndex, runs>>
     ELSE /\ isBatchProcessing' = TRUE
          /\ currentProcessingIndex' = 0
          /\ imageBatch' = WithProcessing(imageBatch, imageBatch[1].id, TRUE)
          /\ runs' = Append(runs, NewRun(imageBatch))
          /\ notice' = "none"
  /\ UNCHANGED <<apiKey, nextId, reads, inFlight>>
  /\ UNCHANGED <<harnessVars, callVars>>

\* processBatch, from the Generate button
ProcessBatch ==
  /\ GenerateEnabled(imageBatch, apiKey, isBatchProcessing)
  /\ ProcessBatchCall

\* generateSingleMetadata, reader.onload: the request of the item is sent
ReadLoaded(r) ==
  /\ runs[r].pc = "reading"
  /\ runs' = [runs EXCEPT ![r].pc = "fetching",
                          ![r].requests = Append(@, runs[r].image)]
  /\ inFlight' = inFlight \cup {[run |-> r, id |-> runs[r].image]}
  /\ notice' = "none"
  /\ UNCHANGED <<imageBatch, apiKey, isBatchProcessing,
                 currentProcessingIndex, nextId, reads>>
  /\ UNCHANGED <<harnessVars, callVars>>

\* generateSingleMetadata, the read of the item's file ends in an error: no
\* handler is set, the promise is never settled and the run waits for ever
ReadFails(r) ==
  /\ runs[r].pc = "reading"
  /\ runs' = [runs EXCEPT ![r].pc = "stuck"]
  /\ notice' = "none"
  /\ UNCHANGED <<imageBatch, apiKey, isBatchProcessing,
                 currentProcessingIndex, nextId, reads, inFlight>>
  /\ UNCHANGED <<harnessVars, callVars>>

\* the request is answered and the promise resolved: the metadata is stored
\* on the image of that id and the pause begins
RequestSucceeds(r) ==
  LET id == runs[r].image IN
  /\ runs[r].pc = "fetching"
  /\ inFlight' = inFlight \ {[run |-> r, id |-> id]}
  /\ imageBatch' = WithMetadata(imageBatch, id, [of |-> id, run |-> r])
  /\ runs' = [runs EXCEPT ![r].pc = "pausing"]
  /\ notice' = "none"
  /\ UNCHANGED <<apiKey, isBatchProcessing, currentProcessingIndex, nextId,
                 reads>>
  /\ UNCHANGED <<harnessVars, callVars>>

\* the request fails or its answer is rejected (no OK status, no JSON object,
\* malformed JSON, an error of the sanitizer): the catch block, and the loop
\* goes on at once
RequestFails(r) ==
  LET id == runs[r].image
      run == [runs[r] EXCEPT !.errors = Append(@, id)]
  IN
  /\ runs[r].pc = "fetching"
  /\ inFlight' = inFlight \ {[run |-> r, id |-> id]}
  /\ ContinueAfterFailure(r, run, AfterFailure(imageBatch, id),
                          "Processing Error")
  /\ UNCHANGED <<apiKey, nextId, reads>>
  /\ UNCHANGED <<harnessVars, callVars>>

\* the timer of 1000 ms fires
PauseEnds(r) ==
  /\ runs[r].pc = "pausing"
  /\ Continue(r, runs[r], imageBatch, "none")
  /\ UNCHANGED <<apiKey, nextId, reads, inFlight>>
  /\ UNCHANGED <<harnessVars, callVars>>

NextBatch ==
  \/ \E n \in 0..MaxSelect, large \in 0..1 : Upload(n, large, MaxImages)
  \/ UploadLoaded
  \/ UploadReadFails
  \/ \E id \in 1..MaxImages : RemoveImage(id, MaxImages)
  \/ ClearBatch
  \/ \E key \in {"", "key"} : SetApiKey(key)
  \/ ProcessBatch
  \/ \E r \in 1..Len(runs) : ReadLoaded(r)
  \/ \E r \in 1..Len(runs) : ReadFails(r)
  \/ \E r \in 1..Len(runs) : RequestSucceeds(r)
  \/ \E r \in 1..Len(runs) : RequestFails(r)
  \/ \E r \in 1..Len(runs) : PauseEnds(r)

SpecBatch == InitBatch /\ [][NextBatch]_vars

\* The events a run waits for do happen: a FileReader ends its read (load or
\* error), a fetch is settled (answer or failure), a timer fires.
SpecBatchFair ==
  /\ SpecBatch
  /\ WF_vars(\E r \in 1..Len(runs) : ReadLoaded(r) \/ ReadFails(r))
  /\ WF_vars(\E r \in 1..Len(runs) : RequestSucceeds(r) \/ RequestFails(r))
  /\ WF_vars(\E r \in 1..Len(runs) : PauseEnds(r))

\* processBatch called directly, whatever the batch and the key, while no
\* run is in progress
ProcessBatchDirect ==
  /\ ~isBatchProcessing
  /\ ProcessBatchCall

\* the component with the function called directly in place of the button
NextInvoke ==
  \/ \E n \in 0..MaxSelect, large \in 0..1 : Upload(n, large, MaxImages)
  \/ UploadLoaded
  \/ UploadReadFails
  \/ \E id \in 1..MaxImages : RemoveImage(id, MaxImages)
  \/ ClearBatch
  \/ \E key \in {"", "key"} : SetApiKey(key)
  \/ ProcessBatchDirect
  \/ \E r \in 1..Len(runs) : ReadLoaded(r)
  \/ \E r \in 1..Len(runs) : ReadFails(r)
  \/ \E r \in 1..Len(runs) : RequestSucceeds(r)
  \/ \E r \in 1..Len(runs) : RequestFails(r)
  \/ \E r \in 1..Len(runs) : PauseEnds(r)

SpecInvoke == InitBatch /\ [][NextInvoke]_vars

\* Selections around the limit of 50 images, without batch runs
UploadSizes == {0, 1, MaxBatchSize \div 2 + 1, MaxBatchSize + 1}

\* the image at the head of the batch is the one removed here
FirstIds(batch) == IF batch = <<>> THEN {} ELSE {batch[1].id}

InitUpload == HarnessAtRest /\ BatchAtRest

NextUpload ==
  \/ \E n \in UploadSizes, large \in 0..1 : Upload(n, large, MaxUploaded)
  \/ UploadLoaded
  \/ UploadReadFails
  \/ \E id \in FirstIds(imageBatch) : RemoveImage(id, MaxRemoved)
  \/ ClearBatch

SpecUpload == InitUpload /\ [][NextUpload]_vars

\* ------------------------------------------------------------------------
\* Properties
\* ------------------------------------------------------------------------
\* a call of validateAndCleanKeywords has returned
Returned == op = "validateAndCleanKeywords" /\ outKind = "return"

\* the strings of the returned array
Out == [i \in 1..Len(outKeywords.a) |-> outKeywords.a[i].s]

\* the argument's entries, trimmed and lower-cased (every entry is a string
\* whenever the call has returned an array argument's result)
In == [i \in 1..Len(argKeywords.a) |->
         [j \in 1..Len(Trim(argKeywords.a[i].s)) |->
            ToLowerChar(Trim(argKeywords.a[i].s)[j])]]

IsArrayCall == Returned /\ argKeywords.t = "arr"

FirstIndex(seq, x) ==
  CHOOSE i \in 1..Len(seq) : seq[i] = x /\ \A j \in 1..(i - 1) : seq[j] # x

\* the candidates (indices of in) that are the first occurrence of a keyword
\* of the output out
AcceptedIndices(in, out) ==
  {i \in 1..Len(in) : Includes(out, in[i]) /\ FirstIndex(in, in[i]) = i}

\* the keywords accepted before candidate i, acc being AcceptedIndices
AcceptedBefore(in, acc, i) == {in[j] : j \in {h \in acc : h < i}}

\* the stems claimed before candidate i
ClaimedBefore(in, acc, i) ==
  {variations[FirstGroup(k)].stem :
     k \in {x \in AcceptedBefore(in, acc, i) : FirstGroup(x) # 0}}

\* candidate i is dropped exactly when its group's stem was claimed, or,
\* being of no group, when it is too short or an exact duplicate
DroppedAsRuled(in, acc, i) ==
  IF FirstGroup(in[i]) # 0
  THEN i \notin acc <=>
         variations[FirstGroup(in[i])].stem \in ClaimedBefore(in, acc, i)
  ELSE i \notin acc <=>
         (Len(in[i]) < 2 \/ in[i] \in AcceptedBefore(in, acc, i))

\* the examples of the specification: arguments and expected results
BusinessNatureBusiness ==
  Array(<<Str(<<"B","u","s","i","n","e","s","s">>),
          Str(<<"N","a","t","u","r","e">>),
          Str(<<"b","u","s","i","n","e","s","s">>)>>)

BusinessNature ==
  <<<<"b","u","s","i","n","e","s","s">>,
    <<"n","a","t","u","r","e">>>>

AOkGo ==
  Array(<<Str(<<"a">>),
          Str(<<"o","k">>),
          Str(<<"g","o">>)>>)

OkGo ==
  <<<<"o","k">>,
    <<"g","o">>>>

WorkWorkingOffice ==
  Array(<<Str(<<"w","o","r","k">>),
          Str(<<"w","o","r","k","i","n","g">>),
          Str(<<"o","f","f","i","c","e">>)>>)

WorkOffice ==
  <<<<"w","o","r","k">>,
    <<"o","f","f","i","c","e">>>>

\* C1: for every stem group of the table, at most one element of the
\* returned array is one of the group's variants.
C1_AtMostOnePerGroup ==
  Returned =>
    \A g \in 1..Len(variations) :
      Cardinality({i \in 1..Len(Out) :
                     Includes(variations[g].variants, Out[i])}) <= 1

\* C2: a call of validateAndCleanKeywords never raises an error, whatever
\* the argument and its entries are.
C2_NeverThrows == op = "validateAndCleanKeywords" => outKind = "return"

\* C3: no two elements of the returned array are equal when compared
\* case-insensitively.
C3_NoCaseInsensitiveDuplicates ==
  Returned =>
    LET folded == [i \in 1..Len(Out) |-> ToLowerCase(Out[i])]
    IN \A i, j \in 1..Len(folded) : i # j => folded[i] # folded[j]

\* two entries that differ only in case or surrounding whitespace were
\* given and one keyword was returned for them
C3_Witness ==
  /\ IsArrayCall
  /\ LET in == In
         out == Out
     IN \E i, j \in 1..Len(in) :
          /\ i < j
          /\ argKeywords.a[i] # argKeywords.a[j]
          /\ in[i] = in[j]
          /\ Cardinality({h \in 1..Len(out) : out[h] = in[i]}) = 1

\* C4: the returned array has at most 25 elements.
C4_AtMost25 == Returned => Len(Out) <= 25

\* more than 25 acceptable candidates were given and 25 were returned
C4_Witness ==
  /\ IsArrayCall
  /\ Len(Out) = 25
  /\ Cardinality({In[i] : i \in 1..Len(In)}) > 25

\* C5: the returned array is a subsequence of the trimmed, lower-cased
\* input in which every keyword stands at the place of its first occurrence
\* (so ["Business","Nature","business"] gives ["business","nature"]).
C5_StableFilter ==
  /\ IsArrayCall =>
       LET in == In
           out == Out
           at == [i \in 1..Len(out) |->
                    IF Includes(in, out[i]) THEN FirstIndex(in, out[i]) ELSE 0]
       IN /\ \A i \in 1..Len(out) : at[i] # 0
          /\ \A i, j \in 1..Len(out) : i < j => at[i] < at[j]
  /\ (op = "validateAndCleanKeywords" /\ argKeywords = BusinessNatureBusiness) =>
       (outKind = "return" /\ Out = BusinessNature)

\* the call on ["Business","Nature","business"] has returned
C5_Witness ==
  Returned /\ argKeywords = BusinessNatureBusiness /\ Len(Out) = 2

\* the top-ten field of the response has a length, and it is 10
HasLengthTen(value) == value.t \in {"arr", "str"} /\ Len(value.a) = 10

Resolved ==
  /\ op \in {"generateSingleMetadata", "generateSingleMetadataUnsanitized"}
  /\ outKind = "resolve"

\* C6: when the response's topTenKeywords is absent or not of length 10, the
\* resolved topTenKeywords is the first 10 entries of the sanitized keywords;
\* when it has length 10, it is the response's.
C6_TopTenFallback ==
  Resolved =>
    IF HasLengthTen(argTopTen)
    THEN outTopTen = argTopTen
    ELSE outTopTen =
           StringArray(SubSeq(validateAndCleanKeywords(argKeywords).v, 1,
             IF Len(validateAndCleanKeywords(argKeywords).v) < 10
             THEN Len(validateAndCleanKeywords(argKeywords).v) ELSE 10))

\* C7: the resolved topTenKeywords has exactly 10 items.
C7_TopTenHasTenItems ==
  Resolved => (outTopTen.t \in {"arr", "str"} /\ Len(outTopTen.a) = 10)

\* C8: on [] and on every value that is no array, validateAndCleanKeywords
\* returns [].
C8_EmptyForNoArray ==
  (op = "validateAndCleanKeywords"
     /\ (argKeywords.t # "arr" \/ argKeywords.a = <<>>)) =>
    (outKind = "return" /\ outKeywords = Array(<<>>))

\* the call on a non-empty string (truthy, no array) has returned
C8_Witness ==
  /\ op = "validateAndCleanKeywords"
  /\ argKeywords.t = "str"
  /\ argKeywords.a # <<>>
  /\ outKind = "return"

\* the string entries whose normalized form has at least 2 characters
RECURSIVE LongEnough(_)
LongEnough(items) ==
  IF items = <<>> THEN <<>>
  ELSE IF Len(ToLowerCase(Trim(Head(items).s))) >= 2
       THEN <<Head(items)>> \o LongEnough(Tail(items))
       ELSE LongEnough(Tail(items))

\* C9: every returned element has at least 2 characters and is trimmed and
\* lower-cased; candidates shorter than 2 after normalization are dropped,
\* and dropping them from the input does not change the result
\* (so ["a","ok","go"] gives ["ok","go"]).
C9_ShortDropped ==
  /\ Returned =>
       \A i \in 1..Len(Out) :
         /\ Len(Out[i]) >= 2
         /\ Out[i][1] \notin WhiteSpace
         /\ Out[i][Len(Out[i])] \notin WhiteSpace
         /\ \A j \in 1..Len(Out[i]) :
              \A u \in 1..Len(UpperCase) : Out[i][j] # UpperCase[u]
  /\ IsArrayCall =>
       LET in == In
           out == Out
       IN /\ \A i \in 1..Len(in) : Len(in[i]) < 2 => ~Includes(out, in[i])
          /\ out = validateAndCleanKeywords(Array(LongEnough(argKeywords.a))).v
  /\ (op = "validateAndCleanKeywords" /\ argKeywords = AOkGo) =>
       (outKind = "return" /\ Out = OkGo)

\* the call on ["a","ok","go"] has returned
C9_Witness ==
  Returned /\ argKeywords = AOkGo /\ Len(Out) = 2

\* C10 as stated: a candidate of a stem group is dropped exactly when the
\* group's stem was claimed by an earlier accepted keyword, and a candidate
\* of no group is dropped only as too short or as an exact duplicate.
C10_DroppedIffClaimed ==
  IsArrayCall =>
    LET in == In
        acc == AcceptedIndices(in, Out)
    IN \A i \in 1..Len(in) : DroppedAsRuled(in, acc, i)

\* C10 amended: the same, for the candidates before which fewer than 25
\* keywords were accepted (so ["work","working","office"] gives
\* ["work","office"]).
C10_DroppedIffClaimedBeforeCap ==
  /\ IsArrayCall =>
       LET in == In
           acc == AcceptedIndices(in, Out)
       IN \A i \in 1..Len(in) :
            Cardinality({h \in acc : h < i}) < 25 => DroppedAsRuled(in, acc, i)
  /\ (op = "validateAndCleanKeywords" /\ argKeywords = WorkWorkingOffice) =>
       (outKind = "return" /\ Out = WorkOffice)

\* the call on ["work","working","office"] has returned
C10_Witness ==
  Returned /\ argKeywords = WorkWorkingOffice /\ Len(Out) = 2

\* the groups of the table that list the keyword
GroupsListing(k) ==
  {g \in 1..Len(variations) :
     \E v \in 1..Len(variations[g].variants) : variations[g].variants[v] = k}

\* the stem of the first group in table order that lists the keyword
\* (for a keyword that some group lists)
FirstListingStem(k) ==
  variations[CHOOSE g \in GroupsListing(k) :
               \A h \in GroupsListing(k) : g <= h].stem

OfficeWorkplace ==
  Array(<<Str(<<"o","f","f","i","c","e">>),
          Str(<<"w","o","r","k","p","l","a","c","e">>)>>)

WorkplaceOffice ==
  Array(<<Str(<<"w","o","r","k","p","l","a","c","e">>),
          Str(<<"o","f","f","i","c","e">>)>>)

WorkWorkplace ==
  Array(<<Str(<<"w","o","r","k">>),
          Str(<<"w","o","r","k","p","l","a","c","e">>)>>)

\* C11: the lookup is first-match in table order.  In a call whose input has
\* a keyword listed in several groups, every candidate of a group is accepted
\* exactly when the stem of the FIRST group listing it was not claimed, the
\* claimed stems being those of the first groups listing the keywords
\* accepted before (candidates after the 25th accepted one aside).  So
\* 'workplace' is accepted after 'office', leaves 'office' unclaimed, and
\* collides with 'work'.
C11_FirstMatch ==
  /\ IsArrayCall =>
       LET in == In
           acc == AcceptedIndices(in, Out)
           listed == {i \in 1..Len(in) : GroupsListing(in[i]) # {}}
           claimed(i) == {FirstListingStem(in[j]) :
                            j \in {h \in acc \cap listed : h < i}}
       IN (\E i \in listed : Cardinality(GroupsListing(in[i])) > 1) =>
            \A i \in listed :
              Cardinality({h \in acc : h < i}) < 25 =>
                (i \in acc <=> FirstListingStem(in[i]) \notin claimed(i))
  /\ (op = "validateAndCleanKeywords" /\ argKeywords = OfficeWorkplace) =>
       (outKind = "return" /\ outKeywords = OfficeWorkplace)
  /\ (op = "validateAndCleanKeywords" /\ argKeywords = WorkplaceOffice) =>
       (outKind = "return" /\ outKeywords = WorkplaceOffice)
  /\ (op = "validateAndCleanKeywords" /\ argKeywords = WorkWorkplace) =>
       (outKind = "return" /\ Len(Out) = 1)

\* the call on ["office","workplace"] has returned both keywords
C11_Witness ==
  Returned /\ argKeywords = OfficeWorkplace /\ Len(Out) = 2

\* the same filter run over the first n candidates without the break and
\* without the final slice
RECURSIVE UncappedLoop(_, _)
UncappedLoop(processed, n) ==
  IF n = 0 THEN LoopStart
  ELSE LoopBody(UncappedLoop(processed, n - 1), processed[n])

\* C20: the returned array is the first 25 elements of what the same filter
\* gives without the cap, and the candidates after the 25th accepted keyword
\* do not change it: the call on the input cut after that candidate returns
\* the same array.
C20_StopsAtTwentyFifth ==
  IsArrayCall =>
    LET in == In
        out == Out
        full == UncappedLoop(in, Len(in)).cleanedKeywords
    IN /\ out = SubSeq(full, 1, IF Len(full) < 25 THEN Len(full) ELSE 25)
       /\ Len(out) = 25 =>
            out = validateAndCleanKeywords(
                    Array(SubSeq(argKeywords.a, 1, FirstIndex(in, out[25])))).v

\* 25 keywords were returned and the uncapped filter would have accepted a
\* later candidate
C20_Witness ==
  /\ IsArrayCall
  /\ Len(Out) = 25
  /\ Len(UncappedLoop(In, Len(In)).cleanedKeywords) > 25

\* C16: the post-processing of part_000 passes title, description, altText
\* and category through unchanged; keywords is replaced by its sanitized
\* version and topTenKeywords is either kept or backfilled from it.
C16_OnlyKeywordFieldsChange ==
  (op = "generateSingleMetadata" /\ outKind = "resolve") =>
    /\ outOther = argOther
    /\ outKeywords = StringArray(validateAndCleanKeywords(argKeywords).v)
    /\ \/ outTopTen = argTopTen
       \/ outTopTen = [t |-> "arr",
                       a |-> SubSeq(outKeywords.a, 1,
                               IF Len(outKeywords.a) < 10
                               THEN Len(outKeywords.a) ELSE 10)]

\* a response with the four other fields set was resolved with its keywords
\* replaced and its topTenKeywords backfilled
C16_Witness ==
  /\ op = "generateSingleMetadata"
  /\ outKind = "resolve"
  /\ argOther.title = "t1"
  /\ outKeywords # argKeywords
  /\ outTopTen # argTopTen

\* C15: a call leaves its argument as it was, and its result depends on the
\* argument only: any two calls on equal arguments have returned (or thrown)
\* the same, whatever calls were made before or between them.
C15_NoSideEffects ==
  /\ \A i \in 1..Len(calls) : calls[i].after = calls[i].arg
  /\ \A i, j \in 1..Len(calls) :
       calls[i].arg = calls[j].arg => calls[i].out = calls[j].out

\* the same array was passed twice, with a call on another array of the same
\* stem group between the two, and keywords were returned
C15_Witness ==
  /\ Len(calls) = 3
  /\ calls[1].arg = calls[3].arg
  /\ calls[2].arg # calls[1].arg
  /\ calls[1].out.v # <<>>
  /\ calls[2].out.v # <<>>
  /\ calls[3].out.v # <<>>

\* C19: the batch never holds more than 50 images.
C19_AtMostFiftyImages == Len(imageBatch) <= 50

\* C12: at most one request is outstanding, and every run sends its requests
\* in the order of its batch, one item after the other: the request in flight
\* is the one sent last by its run.
C12_OneRequestAtATime ==
  /\ Cardinality(inFlight) <= 1
  /\ \A r \in 1..Len(runs) :
       /\ Len(runs[r].requests) <= Len(runs[r].batch)
       /\ \A k \in 1..Len(runs[r].requests) :
            runs[r].requests[k] = runs[r].batch[k]
  /\ \A q \in inFlight :
       /\ q.run \in 1..Len(runs)
       /\ runs[q.run].requests # <<>>
       /\ q.id = runs[q.run].requests[Len(runs[q.run].requests)]
       /\ \A r \in 1..Len(runs) : r # q.run => runs[r].pc \in {"done", "stuck"}

\* the request of the second item of a run is outstanding
C12_Witness ==
  \E q \in inFlight :
    /\ Len(runs[q.run].requests) = 2
    /\ Len(runs[q.run].batch) >= 2

\* C13: a failed item is notified and does not end the run: a run that has
\* ended has sent exactly one request for each image of its batch, in order,
\* and has notified exactly the items that failed; no run sends two requests
\* for one item.
C13_FailureIsPerItem ==
  \A r \in 1..Len(runs) :
    /\ \A k, h \in 1..Len(runs[r].requests) :
         k # h => runs[r].requests[k] # runs[r].requests[h]
    /\ \A k \in 1..Len(runs[r].errors) :
         \E h \in 1..Len(runs[r].requests) :
           runs[r].requests[h] = runs[r].errors[k]
    /\ runs[r].pc = "done" => runs[r].requests = runs[r].batch

\* a run has ended after its first item failed and a later item was sent
C13_Witness ==
  \E r \in 1..Len(runs) :
    /\ runs[r].pc = "done"
    /\ Len(runs[r].batch) >= 2
    /\ runs[r].errors # <<>>
    /\ runs[r].errors[1] = runs[r].batch[1]
    /\ runs[r].requests = runs[r].batch

\* C14: when the request of an item has completed, the run pauses before it
\* goes on to the next item, whether the request succeeded or failed.
C14_PauseAfterEveryCompletion ==
  [][\A r \in 1..Len(runs) :
       (runs[r].pc = "fetching" /\ runs'[r].pc # "fetching")
         => runs'[r].pc \in {"pausing", "done"}]_vars

\* C17: removing images or clearing the batch does not stop a run, and a run
\* works on the batch it started with: it sends requests for images of that
\* batch only, once it has ended it has sent one for each of them, and it
\* sends them also for images that are no longer in the batch.
C17_NoCancellation ==
  \A r \in 1..Len(runs) :
    /\ \A k \in 1..Len(runs[r].requests) :
         \E h \in 1..Len(runs[r].batch) :
           runs[r].requests[k] = runs[r].batch[h]
    /\ runs[r].pc = "done" =>
         \A h \in 1..Len(runs[r].batch) :
           \E k \in 1..Len(runs[r].requests) :
             runs[r].requests[k] = runs[r].batch[h]

\* a run has ended although the batch was emptied meanwhile, with requests
\* sent for images that were removed and none for an image uploaded later
C17_Witness ==
  \E r \in 1..Len(runs) :
    /\ runs[r].pc = "done"
    /\ Len(runs[r].requests) >= 2
    /\ \E k \in 1..Len(runs[r].batch) : runs[r].batch[k] \notin Ids(imageBatch)
    /\ \E id \in Ids(imageBatch) :
         \A k \in 1..Len(runs[r].batch) : runs[r].batch[k] # id

\* C18: a run issues its completion notification once, when it ends and not
\* before all its items were sent, whatever the number of failures; the
\* count it reports is the length of the batch the run started with.
C18_OneCompletionNotice ==
  \A r \in 1..Len(runs) :
    /\ Len(runs[r].complete) <= 1
    /\ runs[r].pc = "done" <=> Len(runs[r].complete) = 1
    /\ runs[r].complete # <<>> =>
         /\ Len(runs[r].requests) = Len(runs[r].batch)
         /\ runs[r].complete[1] = Len(runs[r].batch)

\* a run has ended with failures, while the batch has another length than
\* when the run started
C18_Witness ==
  \E r \in 1..Len(runs) :
    /\ runs[r].pc = "done"
    /\ runs[r].errors # <<>>
    /\ Len(runs[r].complete) = 1
    /\ Len(imageBatch) # Len(runs[r].batch)

\* C25: validateAndCleanKeywords is idempotent: applied to the array it has
\* returned for an array of strings, it returns that array again.
C25_Idempotent ==
  IsArrayCall =>
    LET out == Out
        again == validateAndCleanKeywords(outKeywords)
    IN /\ again.k = "return"
       /\ again.v = out

\* a call that has normalised or dropped entries and returned two keywords
\* or more
C25_Witness ==
  /\ IsArrayCall
  /\ LET out == Out
     IN /\ Len(out) >= 2
        /\ Len(out) < Len(argKeywords.a)
        /\ \E i \in 1..Len(argKeywords.a) :
             ~Includes(out, argKeywords.a[i].s)

\* C21: the failure of an item leaves that image with isProcessing = false
\* and the metadata it had, and changes no field of another image (the loop
\* then marks the next item of the run, if there is one, as being processed).
C21_FailureChangesOnlyTheFlag ==
  [][\A r \in 1..Len(runs) :
       Len(runs'[r].errors) > Len(runs[r].errors) =>
         LET failed == runs'[r].errors[Len(runs'[r].errors)]
             marked == IF runs'[r].pc = "reading"
                       THEN {runs'[r].batch[runs'[r].i + 1]} ELSE {}
         IN /\ Len(imageBatch') = Len(imageBatch)
            /\ \A k \in 1..Len(imageBatch) :
                 /\ imageBatch'[k].id = imageBatch[k].id
                 /\ imageBatch'[k].metadata = imageBatch[k].metadata
                 /\ imageBatch[k].id = failed => ~imageBatch'[k].isProcessing
                 /\ imageBatch[k].id \notin {failed} \cup marked =>
                      imageBatch'[k].isProcessing = imageBatch[k].isProcessing]_vars

\* an image that has the metadata of an earlier run has failed in a later
\* run, next to an image that has its metadata too
C21_Witness ==
  \E r \in 1..Len(runs) : \E e \in 1..Len(runs[r].errors) :
    \E k, h \in 1..Len(imageBatch) :
      /\ imageBatch[k].id = runs[r].errors[e]
      /\ imageBatch[k].metadata # NoMetadata
      /\ imageBatch[k].metadata.run < r
      /\ ~imageBatch[k].isProcessing
      /\ h # k
      /\ imageBatch[h].metadata # NoMetadata

\* C22: every started batch run eventually finishes, reads and requests
\* ending in success or in error: a state with isBatchProcessing is followed
\* by one with isBatchProcessing = false and currentProcessingIndex = -1.
C22_RunEventuallyFinishes ==
  isBatchProcessing ~> (~isBatchProcessing /\ currentProcessingIndex = -1)

\* C23: at most one image of the batch has isProcessing = true; while
\* isBatchProcessing is false no image has it and currentProcessingIndex is
\* -1; while a request is outstanding currentProcessingIndex is the index of
\* its item in the run.
C23_ProcessingMarks ==
  /\ Cardinality({k \in 1..Len(imageBatch) : imageBatch[k].isProcessing}) <= 1
  /\ ~isBatchProcessing =>
       /\ \A k \in 1..Len(imageBatch) : ~imageBatch[k].isProcessing
       /\ currentProcessingIndex = -1
  /\ \A q \in inFlight : currentProcessingIndex = runs[q.run].i

\* C24: a result is stored only on the image with the id it was produced
\* for: the metadata of an image is always its own; the step in which a
\* request succeeds changes no other image; and no step brings an image back
\* into the batch, the only new entries being freshly uploaded images.
C24_MetadataByIdOnly ==
  [][/\ \A k \in 1..Len(imageBatch') :
          imageBatch'[k].metadata # NoMetadata =>
            imageBatch'[k].metadata.of = imageBatch'[k].id
     /\ Ids(imageBatch') \subseteq Ids(imageBatch) \cup {nextId}
     /\ \A q \in inFlight \ inFlight' :
          runs'[q.run].pc = "pausing" =>
            /\ Len(imageBatch') = Len(imageBatch)
            /\ \A k \in 1..Len(imageBatch) :
                 imageBatch[k].id # q.id => imageBatch'[k] = imageBatch[k]]_vars

\* the request of an image has succeeded after the image was removed, next
\* to an image that has its result and one uploaded since the run started
C24_Witness ==
  \E r \in 1..Len(runs) : \E k \in 1..Len(runs[r].requests) :
    LET id == runs[r].requests[k] IN
    /\ k < Len(runs[r].requests) \/ runs[r].pc \in {"pausing", "done"}
    /\ \A e \in 1..Len(runs[r].errors) : runs[r].errors[e] # id
    /\ id \notin Ids(imageBatch)
    /\ \E h \in 1..Len(imageBatch) : imageBatch[h].metadata.run = r
    /\ \E h \in 1..Len(imageBatch) :
         /\ imageBatch[h].metadata = NoMetadata
         /\ \A j \in 1..Len(runs[r].batch) : runs[r].batch[j] # imageBatch[h].id

\* C26: processBatch called with an empty batch or an empty key sends no
\* request and leaves imageBatch, isBatchProcessing and
\* currentProcessingIndex as they are; it shows 'Missing Requirements'.
C26_MissingRequirementsOnly ==
  [][((Len(imageBatch) = 0 \/ apiKey = "") /\ ProcessBatchCall) =>
       /\ UNCHANGED <<imageBatch, isBatchProcessing, currentProcessingIndex>>
       /\ UNCHANGED <<runs, inFlight>>
       /\ notice' = "Missing Requirements"]_vars

\* the function was called for a batch with images and no key
C26_Witness ==
  /\ notice = "Missing Requirements"
  /\ apiKey = ""
  /\ imageBatch # <<>>

\* C27: a selection of more than 50 files, or one that would take the batch
\* above 50, starts no read and adds nothing; an accepted selection starts a
\* read for each of its files but those over 10MB; and images come into the
\* batch only one by one, each from a read that was started.
C27_RejectedSelectionAddsNothing ==
  [][/\ \A n \in UploadSizes, large \in 0..1 :
          Upload(n, large, MaxUploaded) =>
            /\ imageBatch' = imageBatch
            /\ reads' = IF n > 50 \/ Len(imageBatch) + n > 50
                        THEN reads
                        ELSE reads + (n - large)
     /\ Len(imageBatch') > Len(imageBatch) =>
          /\ Len(imageBatch') = Len(imageBatch) + 1
          /\ reads > 0
          /\ reads' = reads - 1]_vars

\* a selection was rejected for a batch that an earlier selection with one
\* file over 10MB had filled with its other files
C27_Witness ==
  /\ notice = "Batch limit exceeded"
  /\ reads = 0
  /\ Len(imageBatch) = 25
  /\ nextId = 26

====
